---- MODULE Spec2Model ----
(***************************************************************************)
(* Model of cmd-forwarder-sriov (src/main.go): the eight-phase startup of  *)
(* main(), the transport task started by grpcutils.ListenAndServe, the     *)
(* failure watcher spawned by exitOnErr, and the shared cancellation       *)
(* context.                                                                *)
(*                                                                         *)
(* The main goroutine is a program counter `pc` naming the next statement  *)
(* block of main(); every collaborator call draws its outcome (success or  *)
(* error) from BOOLEAN.  log.Entry(ctx).Fatal* is logrus' Fatal: it logs   *)
(* and calls os.Exit(1), so deferred functions are NOT run.                *)
(***************************************************************************)
EXTENDS Integers, Sequences, FiniteSets, TLC

VARIABLES
    pc,          \* main goroutine: next block of main() to execute
    ctx,         \* the shared context: [err, closes]
    signals,     \* number of termination signals delivered so far
    defers,      \* main()'s stack of deferred calls (last pushed = last)
    jaegerOpen,  \* the trace sink returned by jaeger.InitJaeger is open
    config,      \* *Config filled by envconfig.Process
    clock,       \* wall clock (seconds)
    starttime,   \* time.Now() taken at line 103
    tmpDir,      \* name returned by ioutil.TempDir
    dirExists,   \* the directory tmpDir exists on disk
    removed,     \* number of os.RemoveAll(tmpDir) calls performed
    listenOn,    \* the listener URL built at line 208
    attached,    \* number of endpoint.Register(server) calls
    served,      \* addresses handed to grpcutils.ListenAndServe, with the
                 \* number of endpoints attached at that time
    errCh,       \* srvErrCh: [buf, closed], capacity 1
    tpc,         \* transport task: "none", "serving", "done"
    checked,     \* outcome of exitOnErr's select: "none", "pending", "empty"
    wpc,         \* watcher goroutine: "none", "waiting", "received", "done"
    wErr,        \* value the watcher received from srvErrCh
    expireTime,  \* result of ptypes.TimestampProto
    submitClock, \* the time.Now() reading of line 244
    submitted,   \* records passed to registryClient.Register, in order
    fatalErr,    \* error logged by Fatal, "nil" if none
    exitCode,    \* process exit status, -1 while the process is alive
    phaseLog,    \* phases announced by "executing phase k" log lines
    callLog,     \* collaborator calls made by main(), with their outcome
    cancels,     \* calls of cancel() made by the watcher
    runs         \* number of times main() reached the wait of line 260

vars == <<pc, ctx, signals, defers, jaegerOpen, config, clock, starttime,
          tmpDir, dirExists, removed, listenOn, attached, served, errCh, tpc,
          checked, wpc, wErr, expireTime, submitClock, submitted, fatalErr,
          exitCode, phaseLog, callLog, cancels, runs>>

(***************************************************************************)
(* Bounds of the model.                                                    *)
(***************************************************************************)
MaxClock == 3
MaxSignals == 2
MaxValidTime == 4

(***************************************************************************)
(* Input domains.                                                          *)
(***************************************************************************)
Names == {"nse-1", "interpose-nse#sriov-forwarder"}
NSNames == {"svc-A", "sriovns"}
Lifetimes == {1, 2}
ConnectTos == {[Scheme |-> "unix", Host |-> "", Path |-> "/connect.to.socket"],
               [Scheme |-> "tcp", Host |-> "registry:5002", Path |-> ""]}
TmpDirs == {"/tmp/sriov-forwarder1", "/tmp/sriov-forwarder2"}

NoConfig == [Name |-> "", NSName |-> "", MaxTokenLifetime |-> 0,
             ConnectTo |-> [Scheme |-> "", Host |-> "", Path |-> ""]]
NoURL == [Scheme |-> "", Host |-> "", Path |-> ""]
NoTimestamp == [Seconds |-> 0, Nanos |-> 0]

\* type Config struct: the fields the startup path reads
Config == [Name : Names, NSName : NSNames, MaxTokenLifetime : Lifetimes,
           ConnectTo : ConnectTos]

(***************************************************************************)
(* Variable groups, used in UNCHANGED clauses.                             *)
(***************************************************************************)
envVars == <<signals, clock>>
bootVars == <<jaegerOpen, config, starttime>>
dirVars == <<tmpDir, dirExists, removed, listenOn>>
srvVars == <<attached, served, errCh, tpc>>
watchVars == <<checked, wpc, wErr, cancels>>
regVars == <<expireTime, submitClock, submitted>>
exitVars == <<fatalErr, exitCode>>

(***************************************************************************)
(* Pure helpers.                                                           *)
(***************************************************************************)

\* CancelCtx with the already-canceled test dropped: every cancel closes
\* the done channel again
CancelCtxAgain(c) ==
    [err |-> "canceled", closes |-> c.closes + 1]

\* context.WithCancel's cancel function and the propagation from the
\* signalctx parent: canceling an already canceled context is a no-op.
CancelCtx(c) ==
    IF c.err # "nil" THEN c
    ELSE [err |-> "canceled", closes |-> c.closes + 1]

\* path.Join(tmpDir, "listen_on.io.sock") wrapped in a unix URL (line 208)
ListenURL(dir) ==
    [Scheme |-> "unix", Host |-> "", Path |-> dir \o "/" \o "listen_on.io.sock"]

\* grpcutils.URLToTarget: the host for tcp, the URL string otherwise
URLToTarget(u) ==
    IF u.Scheme = "tcp" THEN u.Host
    ELSE u.Scheme \o "://" \o u.Host \o u.Path

\* ptypes.TimestampProto: converts an instant to {Seconds, Nanos} and
\* rejects instants outside the representable range
TimestampProtoOf(t) ==
    IF t >= 0 /\ t < MaxValidTime
    THEN [ok |-> TRUE, ts |-> [Seconds |-> t, Nanos |-> 0]]
    ELSE [ok |-> FALSE, ts |-> NoTimestamp]

\* time.Now().Add(config.MaxTokenLifetime) (line 244)
ExpireInstant == clock + config.MaxTokenLifetime

\* RegistrationRecord advertising the registry's address (the argument of
\* line 227) in place of the listener's
RegistrationRecordConnectTo ==
    [Name |-> config.Name,
     NetworkServiceNames |-> <<config.NSName>>,
     Url |-> URLToTarget(config.ConnectTo),
     ExpirationTime |-> expireTime]

\* the &registryapi.NetworkServiceEndpoint literal of lines 248-253
RegistrationRecord ==
    [Name |-> config.Name,
     NetworkServiceNames |-> <<config.NSName>>,
     Url |-> URLToTarget(listenOn),
     ExpirationTime |-> expireTime]

\* a receive from srvErrCh that does not block: the buffered value, or the
\* zero value of a closed channel
Recv(ch) == IF ch.buf # <<>> THEN Head(ch.buf) ELSE "nil"

\* srvErrCh has something to receive: a buffered value, or it is closed
Ready(ch) == ch.buf # <<>> \/ ch.closed

\* log.Entry(ctx).Fatal / Fatalf: log the error and os.Exit(1); deferred
\* calls of main() are not run
Fatal(err) ==
    /\ pc' = "Terminated"
    /\ fatalErr' = err
    /\ exitCode' = 1

\* Step with the error only logged, as main() does for debug.Self
StepLogOnly(here, phase, call, ok, next) ==
    /\ pc = here
    /\ phaseLog' = IF phase > 0 THEN Append(phaseLog, phase) ELSE phaseLog
    /\ callLog' = Append(callLog, [call |-> call, ok |-> ok])
    /\ pc' = next
    /\ UNCHANGED exitVars

\* one collaborator call of main(): announce the phase when the call opens
\* it, record the call, continue on success and Fatal on error
Step(here, phase, call, ok, next) ==
    /\ pc = here
    /\ phaseLog' = IF phase > 0 THEN Append(phaseLog, phase) ELSE phaseLog
    /\ callLog' = Append(callLog, [call |-> call, ok |-> ok])
    /\ IF ok THEN pc' = next /\ UNCHANGED exitVars
             ELSE Fatal(call)

(***************************************************************************)
(* Initial state: the process has been started, main() has not run yet.    *)
(***************************************************************************)
Init ==
    /\ pc = "Setup"
    /\ ctx = [err |-> "nil", closes |-> 0]
    /\ signals = 0
    /\ defers = <<>>
    /\ jaegerOpen = FALSE
    /\ config = NoConfig
    /\ clock = 0
    /\ starttime = 0
    /\ tmpDir = ""
    /\ dirExists = FALSE
    /\ removed = 0
    /\ listenOn = NoURL
    /\ attached = 0
    /\ served = <<>>
    /\ errCh = [buf |-> <<>>, closed |-> FALSE]
    /\ tpc = "none"
    /\ checked = "none"
    /\ wpc = "none"
    /\ wErr = "nil"
    /\ expireTime = NoTimestamp
    /\ submitClock = 0
    /\ submitted = <<>>
    /\ fatalErr = "nil"
    /\ exitCode = -1
    /\ phaseLog = <<>>
    /\ callLog = <<>>
    /\ cancels = 0
    /\ runs = 0

(***************************************************************************)
(* The main goroutine.                                                     *)
(***************************************************************************)

\* Setup with the socket directory created up front, with the other
\* process-wide resources
SetupWithDir ==
    /\ pc = "Setup"
    /\ pc' = "envconfig.Usage"
    /\ jaegerOpen' = TRUE
    /\ defers' = Append(defers, "jaegerCloser.Close")
    /\ starttime' = clock
    /\ tmpDir' \in TmpDirs
    /\ dirExists' = TRUE
    /\ UNCHANGED <<ctx, envVars, config, removed, listenOn, srvVars,
                   watchVars, regVars, exitVars, phaseLog, callLog, runs>>

\* lines 80-116: context, logging, tracing (with its deferred Close),
\* debug.Self (its error is only logged), starttime, the phase list
Setup ==
    /\ pc = "Setup"
    /\ pc' = "envconfig.Usage"
    /\ jaegerOpen' = TRUE
    /\ defers' = Append(defers, "jaegerCloser.Close")
    /\ starttime' = clock
    /\ UNCHANGED <<ctx, envVars, config, dirVars, srvVars, watchVars, regVars,
                   exitVars, phaseLog, callLog, runs>>

\* phase 1, lines 119-124
EnvconfigUsage ==
    /\ \E ok \in BOOLEAN :
         Step("envconfig.Usage", 1, "envconfig.Usage", ok, "envconfig.Process")
    /\ UNCHANGED <<ctx, envVars, defers, bootVars, dirVars, srvVars, watchVars,
                   regVars, runs>>

\* phase 1, lines 125-129
EnvconfigProcess ==
    /\ \E ok \in BOOLEAN :
         /\ Step("envconfig.Process", 0, "envconfig.Process", ok, "ReadConfig")
         /\ IF ok THEN config' \in Config ELSE config' = config
    /\ UNCHANGED <<ctx, envVars, defers, jaegerOpen, starttime, dirVars,
                   srvVars, watchVars, regVars, runs>>

\* phase 2, lines 132-137
ReadConfig ==
    /\ \E ok \in BOOLEAN :
         Step("ReadConfig", 2, "ReadConfig", ok, "UpdateConfig")
    /\ UNCHANGED <<ctx, envVars, defers, bootVars, dirVars, srvVars, watchVars,
                   regVars, runs>>

\* phase 2, lines 139-141
UpdateConfig ==
    /\ \E ok \in BOOLEAN :
         Step("UpdateConfig", 0, "UpdateConfig", ok, "NewPool")
    /\ UNCHANGED <<ctx, envVars, defers, bootVars, dirVars, srvVars, watchVars,
                   regVars, runs>>

\* NewPool continuing with phase 5, the device plugin server left out
NewPoolSkip ==
    /\ \E ok \in BOOLEAN :
         Step("NewPool", 3, "NewPool", ok, "NewX509Source")
    /\ UNCHANGED <<ctx, envVars, defers, bootVars, dirVars, srvVars, watchVars,
                   regVars, runs>>

\* phase 3, lines 144-154: token.NewPool, pci.NewPool, resource.NewPool
NewPool ==
    /\ \E ok \in BOOLEAN :
         Step("NewPool", 3, "NewPool", ok, "StartServers")
    /\ UNCHANGED <<ctx, envVars, defers, bootVars, dirVars, srvVars, watchVars,
                   regVars, runs>>

\* phase 4, lines 157-164
StartServers ==
    /\ \E ok \in BOOLEAN :
         Step("StartServers", 4, "StartServers", ok, "NewX509Source")
    /\ UNCHANGED <<ctx, envVars, defers, bootVars, dirVars, srvVars, watchVars,
                   regVars, runs>>

\* phase 5, lines 167-172
NewX509Source ==
    /\ \E ok \in BOOLEAN :
         Step("NewX509Source", 5, "NewX509Source", ok, "GetX509SVID")
    /\ UNCHANGED <<ctx, envVars, defers, bootVars, dirVars, srvVars, watchVars,
                   regVars, runs>>

\* phase 5, lines 173-177
GetX509SVID ==
    /\ \E ok \in BOOLEAN :
         Step("GetX509SVID", 0, "GetX509SVID", ok, "NewServer")
    /\ UNCHANGED <<ctx, envVars, defers, bootVars, dirVars, srvVars, watchVars,
                   regVars, runs>>

\* phase 6, lines 180-198: sriovns.NewServer returns no error
NewServer ==
    /\ Step("NewServer", 6, "NewServer", TRUE, "TempDir")
    /\ UNCHANGED <<ctx, envVars, defers, bootVars, dirVars, srvVars, watchVars,
                   regVars, runs>>

\* phase 7, lines 201-208: the directory, its deferred removal, listenOn
TempDir ==
    /\ \E ok \in BOOLEAN :
         /\ Step("TempDir", 7, "TempDir", ok, "ListenAndServe")
         /\ IF ok
            THEN /\ tmpDir' \in TmpDirs
                 /\ dirExists' = TRUE
                 /\ defers' = Append(defers, "os.RemoveAll")
                 /\ listenOn' = ListenURL(tmpDir')
            ELSE UNCHANGED <<tmpDir, dirExists, defers, listenOn>>
    /\ UNCHANGED <<ctx, envVars, bootVars, removed, srvVars, watchVars,
                   regVars, runs>>

\* ListenAndServe with lines 217 and 218 exchanged: the task is started
\* on the server before the endpoint is registered on it
ListenThenAttach ==
    /\ pc = "ListenAndServe"
    /\ pc' = "exitOnErr"
    /\ served' = Append(served, [addr |-> listenOn, attached |-> attached])
    /\ attached' = attached + 1
    /\ \E ok \in BOOLEAN :
         /\ callLog' = Append(callLog, [call |-> "ListenAndServe", ok |-> ok])
         /\ IF ok
            THEN /\ tpc' = "serving"
                 /\ errCh' = errCh
            ELSE /\ tpc' = "done"
                 /\ errCh' = [buf |-> <<"ListenAndServe">>, closed |-> TRUE]
    /\ UNCHANGED <<ctx, envVars, defers, bootVars, dirVars, watchVars,
                   regVars, exitVars, phaseLog, runs>>

\* ListenAndServe with a listen error that is not yet on the channel when
\* the call returns: the task emits it later
ListenAndServeLateError ==
    /\ pc = "ListenAndServe"
    /\ pc' = "exitOnErr"
    /\ attached' = attached + 1
    /\ served' = Append(served, [addr |-> listenOn, attached |-> attached'])
    /\ \E ok \in BOOLEAN :
         callLog' = Append(callLog, [call |-> "ListenAndServe", ok |-> ok])
    /\ tpc' = "serving"
    /\ errCh' = errCh
    /\ UNCHANGED <<ctx, envVars, defers, bootVars, dirVars, watchVars,
                   regVars, exitVars, phaseLog, runs>>

\* phase 7, lines 210-218: grpc.NewServer, endpoint.Register(server) and
\* grpcutils.ListenAndServe.  A listen error is put on the channel, which
\* is closed, before the call returns; otherwise the task serves.
ListenAndServe ==
    /\ pc = "ListenAndServe"
    /\ pc' = "exitOnErr"
    /\ attached' = attached + 1
    /\ served' = Append(served, [addr |-> listenOn, attached |-> attached'])
    /\ \E ok \in BOOLEAN :
         /\ callLog' = Append(callLog, [call |-> "ListenAndServe", ok |-> ok])
         /\ IF ok
            THEN /\ tpc' = "serving"
                 /\ errCh' = errCh
            ELSE /\ tpc' = "done"
                 /\ errCh' = [buf |-> <<"ListenAndServe">>, closed |-> TRUE]
    /\ UNCHANGED <<ctx, envVars, defers, bootVars, dirVars, watchVars,
                   regVars, exitVars, phaseLog, runs>>

\* exitOnErr without the go statement of line 271
exitOnErrNoWatcher ==
    /\ pc = "exitOnErr"
    /\ IF Ready(errCh)
       THEN /\ checked' = "pending"
            /\ errCh' = [errCh EXCEPT !.buf = <<>>]
            /\ Fatal(Recv(errCh))
       ELSE /\ checked' = "empty"
            /\ pc' = "DialContext"
            /\ UNCHANGED <<errCh, exitVars>>
    /\ UNCHANGED <<ctx, envVars, defers, bootVars, dirVars, attached, served,
                   tpc, wpc, wErr, cancels, regVars, phaseLog, callLog, runs>>

\* exitOnErr with the watcher goroutine started before the select
exitOnErrSpawnFirst ==
    /\ pc = "exitOnErr"
    /\ wpc' = "waiting"
    /\ IF Ready(errCh)
       THEN /\ checked' = "pending"
            /\ errCh' = [errCh EXCEPT !.buf = <<>>]
            /\ Fatal(Recv(errCh))
       ELSE /\ checked' = "empty"
            /\ pc' = "DialContext"
            /\ UNCHANGED <<errCh, exitVars>>
    /\ UNCHANGED <<ctx, envVars, defers, bootVars, dirVars, attached, served,
                   tpc, wErr, cancels, regVars, phaseLog, callLog, runs>>

\* exitOnErr logging the pending error with Error in place of Fatal
exitOnErrNoFatal ==
    /\ pc = "exitOnErr"
    /\ IF Ready(errCh)
       THEN /\ checked' = "pending"
            /\ errCh' = [errCh EXCEPT !.buf = <<>>]
       ELSE /\ checked' = "empty"
            /\ errCh' = errCh
    /\ wpc' = "waiting"
    /\ pc' = "DialContext"
    /\ UNCHANGED <<ctx, envVars, defers, bootVars, dirVars, attached, served,
                   tpc, wErr, cancels, regVars, exitVars, phaseLog, callLog,
                   runs>>

\* line 219, lines 263-276: the select with a default case, the Fatal when
\* a value (or the zero value of the closed channel) is received, and
\* otherwise the spawn of the watcher goroutine
exitOnErr ==
    /\ pc = "exitOnErr"
    /\ IF Ready(errCh)
       THEN /\ checked' = "pending"
            /\ errCh' = [errCh EXCEPT !.buf = <<>>]
            /\ Fatal(Recv(errCh))
            /\ UNCHANGED wpc
       ELSE /\ checked' = "empty"
            /\ wpc' = "waiting"
            /\ pc' = "DialContext"
            /\ UNCHANGED <<errCh, exitVars>>
    /\ UNCHANGED <<ctx, envVars, defers, bootVars, dirVars, attached, served,
                   tpc, wErr, cancels, regVars, phaseLog, callLog, runs>>

\* phase 8, lines 222-236: grpc.DialContext to the registry
DialContext ==
    /\ \E ok \in BOOLEAN :
         Step("DialContext", 8, "DialContext", ok, "TimestampProto")
    /\ UNCHANGED <<ctx, envVars, defers, bootVars, dirVars, srvVars, watchVars,
                   regVars, runs>>

\* phase 8, lines 238-247: the registry client and the expiration time
TimestampProto ==
    /\ submitClock' = clock
    /\ LET r == TimestampProtoOf(ExpireInstant) IN
         /\ Step("TimestampProto", 0, "TimestampProto", r.ok, "Register")
         /\ expireTime' = r.ts
    /\ UNCHANGED <<ctx, envVars, defers, bootVars, dirVars, srvVars, watchVars,
                   submitted, runs>>

\* Register retried after an error in place of the Fatal
RegisterRetry ==
    /\ pc = "Register"
    /\ \E ok \in BOOLEAN :
         /\ callLog' = Append(callLog, [call |-> "Register", ok |-> ok])
         /\ pc' = IF ok THEN "StartupCompleted" ELSE "Register"
    /\ submitted' = Append(submitted, RegistrationRecord)
    /\ UNCHANGED <<ctx, envVars, defers, bootVars, dirVars, srvVars, watchVars,
                   expireTime, submitClock, exitVars, phaseLog, runs>>

\* phase 8, lines 248-256: registryClient.Register
Register ==
    /\ \E ok \in BOOLEAN :
         Step("Register", 0, "Register", ok, "StartupCompleted")
    /\ submitted' = Append(submitted, RegistrationRecord)
    /\ UNCHANGED <<ctx, envVars, defers, bootVars, dirVars, srvVars, watchVars,
                   expireTime, submitClock, runs>>

\* line 258: the success message; main() then waits at line 260
StartupCompleted ==
    /\ pc = "StartupCompleted"
    /\ pc' = "Running"
    /\ runs' = runs + 1
    /\ UNCHANGED <<ctx, envVars, defers, bootVars, dirVars, srvVars, watchVars,
                   regVars, exitVars, phaseLog, callLog>>

\* WaitDone joining the background goroutines before main() returns
WaitDoneJoin ==
    /\ pc = "Running"
    /\ ctx.err # "nil"
    /\ tpc = "done"
    /\ wpc = "done"
    /\ pc' = "Return"
    /\ UNCHANGED <<ctx, envVars, defers, bootVars, dirVars, srvVars, watchVars,
                   regVars, exitVars, phaseLog, callLog, runs>>

\* WaitDone without the receive from ctx.Done()
WaitDoneNoWait ==
    /\ pc = "Running"
    /\ pc' = "Return"
    /\ UNCHANGED <<ctx, envVars, defers, bootVars, dirVars, srvVars, watchVars,
                   regVars, exitVars, phaseLog, callLog, runs>>

\* line 260: <-ctx.Done() returns once the context is canceled
WaitDone ==
    /\ pc = "Running"
    /\ ctx.err # "nil"
    /\ pc' = "Return"
    /\ UNCHANGED <<ctx, envVars, defers, bootVars, dirVars, srvVars, watchVars,
                   regVars, exitVars, phaseLog, callLog, runs>>

\* line 261: main() returns; its deferred calls run last-in first-out:
\* os.RemoveAll(tmpDir) (line 207), then jaegerCloser.Close() (line 94)
RunDefer ==
    /\ pc = "Return"
    /\ defers # <<>>
    /\ LET d == defers[Len(defers)] IN
         /\ defers' = SubSeq(defers, 1, Len(defers) - 1)
         /\ IF d = "os.RemoveAll"
            THEN /\ dirExists' = FALSE
                 /\ removed' = removed + 1
                 /\ UNCHANGED jaegerOpen
            ELSE /\ jaegerOpen' = FALSE
                 /\ UNCHANGED <<dirExists, removed>>
    /\ UNCHANGED <<pc, ctx, envVars, config, starttime, tmpDir, listenOn,
                   srvVars, watchVars, regVars, exitVars, phaseLog, callLog,
                   runs>>

\* the process exits with status 0 once main() has returned
Exit ==
    /\ pc = "Return"
    /\ defers = <<>>
    /\ pc' = "Terminated"
    /\ exitCode' = 0
    /\ UNCHANGED <<ctx, envVars, defers, bootVars, dirVars, srvVars, watchVars,
                   regVars, fatalErr, phaseLog, callLog, runs>>

(***************************************************************************)
(* The transport task, the watcher goroutine and the environment.  They    *)
(* run only while the process is alive.                                    *)
(***************************************************************************)

\* TransportFail with the transport task canceling the shared context
\* itself when Serve fails
TransportFailCancels ==
    /\ exitCode = -1
    /\ tpc = "serving"
    /\ tpc' = "done"
    /\ errCh' = [buf |-> Append(errCh.buf, "Serve"), closed |-> TRUE]
    /\ ctx' = CancelCtx(ctx)
    /\ UNCHANGED <<pc, envVars, defers, bootVars, dirVars, attached,
                   served, watchVars, regVars, exitVars, phaseLog, callLog,
                   runs>>

\* the goroutine of grpcutils.ListenAndServe: server.Serve returns an
\* error, which is sent on the channel before the channel is closed
TransportFail ==
    /\ exitCode = -1
    /\ tpc = "serving"
    /\ tpc' = "done"
    /\ errCh' = [buf |-> Append(errCh.buf, "Serve"), closed |-> TRUE]
    /\ UNCHANGED <<pc, ctx, envVars, defers, bootVars, dirVars, attached,
                   served, watchVars, regVars, exitVars, phaseLog, callLog,
                   runs>>

\* the goroutine of grpcutils.ListenAndServe: the context is done, the
\* server is stopped, server.Serve returns nil and the channel is closed
TransportStop ==
    /\ exitCode = -1
    /\ tpc = "serving"
    /\ ctx.err # "nil"
    /\ tpc' = "done"
    /\ errCh' = [errCh EXCEPT !.closed = TRUE]
    /\ UNCHANGED <<pc, ctx, envVars, defers, bootVars, dirVars, attached,
                   served, watchVars, regVars, exitVars, phaseLog, callLog,
                   runs>>

\* WatcherRecv as a receive that does not block
WatcherRecvNoBlock ==
    /\ exitCode = -1
    /\ wpc = "waiting"
    /\ wErr' = Recv(errCh)
    /\ errCh' = [errCh EXCEPT !.buf = <<>>]
    /\ wpc' = "received"
    /\ UNCHANGED <<pc, ctx, envVars, defers, bootVars, dirVars, attached,
                   served, tpc, checked, cancels, regVars, exitVars, phaseLog,
                   callLog, runs>>

\* line 272: the watcher's blocking receive
WatcherRecv ==
    /\ exitCode = -1
    /\ wpc = "waiting"
    /\ Ready(errCh)
    /\ wErr' = Recv(errCh)
    /\ errCh' = [errCh EXCEPT !.buf = <<>>]
    /\ wpc' = "received"
    /\ UNCHANGED <<pc, ctx, envVars, defers, bootVars, dirVars, attached,
                   served, tpc, checked, cancels, regVars, exitVars, phaseLog,
                   callLog, runs>>

\* WatcherCancel with the cancel() call left out
WatcherLogOnly ==
    /\ exitCode = -1
    /\ wpc = "received"
    /\ wpc' = "done"
    /\ UNCHANGED <<pc, ctx, envVars, defers, bootVars, dirVars, srvVars,
                   checked, wErr, cancels, regVars, exitVars, phaseLog,
                   callLog, runs>>

\* lines 273-274: the watcher logs the error and calls cancel()
WatcherCancel ==
    /\ exitCode = -1
    /\ wpc = "received"
    /\ wpc' = "done"
    /\ cancels' = cancels + 1
    /\ ctx' = CancelCtx(ctx)
    /\ UNCHANGED <<pc, envVars, defers, bootVars, dirVars, srvVars, checked,
                   wErr, regVars, exitVars, phaseLog, callLog, runs>>

\* lines 80-81: a termination signal caught by signalctx.WithSignals; the
\* first one cancels the parent context and, through it, the shared one
Signal ==
    /\ exitCode = -1
    /\ pc # "Setup"
    /\ signals < MaxSignals
    /\ signals' = signals + 1
    /\ ctx' = IF signals = 0 THEN CancelCtx(ctx) ELSE ctx
    /\ UNCHANGED <<pc, clock, defers, bootVars, dirVars, srvVars, watchVars,
                   regVars, exitVars, phaseLog, callLog, runs>>

\* time passes
Tick ==
    /\ exitCode = -1
    /\ clock < MaxClock
    /\ clock' = clock + 1
    /\ UNCHANGED <<pc, ctx, signals, defers, bootVars, dirVars, srvVars,
                   watchVars, regVars, exitVars, phaseLog, callLog, runs>>

Main ==
    \/ Setup \/ EnvconfigUsage \/ EnvconfigProcess \/ ReadConfig
    \/ UpdateConfig \/ NewPool \/ StartServers \/ NewX509Source
    \/ GetX509SVID \/ NewServer \/ TempDir \/ ListenAndServe \/ exitOnErr
    \/ DialContext \/ TimestampProto \/ Register \/ StartupCompleted
    \/ WaitDone \/ RunDefer \/ Exit

Next ==
    \/ Main
    \/ TransportFail \/ TransportStop
    \/ WatcherRecv \/ WatcherCancel
    \/ Signal \/ Tick

Spec == Init /\ [][Next]_vars

\* the Go scheduler runs every runnable goroutine eventually
FairSpec ==
    /\ Spec
    /\ WF_vars(Main)
    /\ WF_vars(WatcherRecv)
    /\ WF_vars(WatcherCancel)

\* only the main goroutine is scheduled fairly: the transport task and the
\* watcher may never take another step
MainFairSpec ==
    /\ Spec
    /\ WF_vars(Main)

(***************************************************************************)
(* Properties.                                                             *)
(***************************************************************************)

\* the collaborator calls of main() in program order
CallOrder ==
    <<"envconfig.Usage", "envconfig.Process", "ReadConfig", "UpdateConfig",
      "NewPool", "StartServers", "NewX509Source", "GetX509SVID", "NewServer",
      "TempDir", "ListenAndServe", "DialContext", "TimestampProto",
      "Register">>

\* the phase whose announcement precedes the call in main()
PhaseOf(call) ==
    CASE call \in {"envconfig.Usage", "envconfig.Process"} -> 1
      [] call \in {"ReadConfig", "UpdateConfig"} -> 2
      [] call = "NewPool" -> 3
      [] call = "StartServers" -> 4
      [] call \in {"NewX509Source", "GetX509SVID"} -> 5
      [] call = "NewServer" -> 6
      [] call \in {"TempDir", "ListenAndServe"} -> 7
      [] OTHER -> 8

\* the phases 1..n, in order
UpTo(n) == [k \in 1..n |-> k]

Called(call) == \E i \in 1..Len(callLog) : callLog[i].call = call

\* C1: fail-fast.  When a collaborator call of phase k returns an error, no
\* later call is made, no phase after k is announced, and the process
\* terminates with exactly that error as the fatal error (a listen error of
\* ListenAndServe is handed over on the channel and made fatal by the
\* check of exitOnErr, which is the only step in between).
C1_FailFast ==
    \A i \in 1..Len(callLog) :
        ~callLog[i].ok =>
            /\ i = Len(callLog)
            /\ phaseLog = UpTo(PhaseOf(callLog[i].call))
            /\ pc \in {"exitOnErr", "Terminated"}
            /\ pc = "exitOnErr" => callLog[i].call = "ListenAndServe"
            /\ pc = "Terminated" =>
                   /\ fatalErr = callLog[i].call
                   /\ exitCode = 1

\* C1 witness: a call of a middle phase failed and the process terminated
C1_Witness ==
    /\ pc = "Terminated"
    /\ callLog # <<>>
    /\ callLog[Len(callLog)] = [call |-> "StartServers", ok |-> FALSE]
    /\ fatalErr = "StartServers"

\* main() is between the creation of the directory and its return
DirInUse ==
    pc \in {"ListenAndServe", "exitOnErr", "DialContext", "TimestampProto",
            "Register", "StartupCompleted", "Running"}

\* C2: the socket directory exists once phase 7 has created it and is
\* absent in every state where the process has terminated, whatever the
\* cause of the termination.
C2_DirAbsentWhenTerminated ==
    /\ DirInUse => dirExists
    /\ pc = "Terminated" => ~dirExists

\* C3: when the check of exitOnErr finds something pending on the channel,
\* the process terminates without entering phase 8: no registry connection
\* is opened, Register is not called and no watcher is spawned.
C3_PendingErrorSkipsPhase8 ==
    checked = "pending" =>
        /\ pc = "Terminated"
        /\ exitCode = 1
        /\ phaseLog = UpTo(7)
        /\ ~Called("DialContext")
        /\ ~Called("Register")
        /\ submitted = <<>>
        /\ wpc = "none"

\* C3 witness: the check found the listen error and the process terminated
C3_Witness ==
    /\ checked = "pending"
    /\ fatalErr = "ListenAndServe"
    /\ pc = "Terminated"

\* C4: the watcher never receives, and so never calls cancel(), before the
\* transport task has put its terminal outcome on the channel (a value, or
\* the close of the channel).
C4_WatcherWaitsForOutcome ==
    (wpc \in {"received", "done"} \/ cancels > 0) =>
        /\ tpc = "done"
        /\ errCh.closed

\* C4 witness: the watcher canceled the context after a Serve error, and
\* no signal was delivered
C4_Witness ==
    /\ wpc = "done"
    /\ cancels = 1
    /\ wErr = "Serve"
    /\ signals = 0
    /\ ctx.err = "canceled"

\* C5: the shared context is canceled at most once (the done channel is
\* closed at most once, a later cancel being a no-op) and the shutdown
\* sequence of main() runs at most once, whichever of the signal and the
\* watcher comes first.
C5_CanceledAtMostOnce ==
    /\ ctx.closes <= 1
    /\ removed <= 1
    /\ cancels <= 1
    /\ ctx.err = "canceled" <=> ctx.closes = 1

\* C5 witness: a signal was delivered and the watcher called cancel() too
C5_Witness ==
    /\ signals > 0
    /\ cancels = 1
    /\ ctx.closes = 1
    /\ pc = "Terminated"
    /\ exitCode = 0

\* the blocks of main() in program order
PcOrder ==
    <<"Setup", "envconfig.Usage", "envconfig.Process", "ReadConfig",
      "UpdateConfig", "NewPool", "StartServers", "NewX509Source",
      "GetX509SVID", "NewServer", "TempDir", "ListenAndServe", "exitOnErr",
      "DialContext", "TimestampProto", "Register", "StartupCompleted",
      "Running", "Return", "Terminated">>

Rank(p) == CHOOSE i \in 1..Len(PcOrder) : PcOrder[i] = p

\* the calls made so far are the first calls of the program order, every
\* one but the last has succeeded, and the phases announced are 1..k with
\* k the phase of the last call
InOrder ==
    /\ Len(callLog) <= Len(CallOrder)
    /\ \A i \in 1..Len(callLog) : callLog[i].call = CallOrder[i]
    /\ \A i \in 1..(Len(callLog) - 1) : callLog[i].ok
    /\ phaseLog = UpTo(Len(phaseLog))
    /\ Len(phaseLog) =
           IF callLog = <<>> THEN 0 ELSE PhaseOf(callLog[Len(callLog)].call)
    /\ pc \notin {"Setup", "Terminated"} /\ Rank(pc) <= Rank("Register") =>
           /\ \A i \in 1..Len(callLog) : callLog[i].ok \/ pc = "exitOnErr"
           /\ Len(callLog) = IF Rank(pc) <= Rank("exitOnErr")
                             THEN Rank(pc) - 2 ELSE Rank(pc) - 3

\* C6: phases 1..8 run in total order on the main path: a phase begins
\* only after every call of the phases before it has returned success, no
\* phase is skipped or repeated, and main() never moves backwards.
C6_TotalOrder ==
    /\ []InOrder
    /\ [][Rank(pc') >= Rank(pc)]_vars

\* C6 witness: all eight phases ran and main() waits at line 260
C6_Witness ==
    /\ pc = "Running"
    /\ phaseLog = UpTo(8)
    /\ Len(callLog) = Len(CallOrder)

\* C7: the wait of line 260 is reached only after Register has returned
\* success, it is reached at most once, and main() leaves it only with the
\* shared context canceled.
C7_RunningUntilCanceled ==
    /\ [](/\ runs <= 1
          /\ pc \in {"Running", "Return"} =>
                 /\ runs = 1
                 /\ callLog # <<>>
                 /\ callLog[Len(callLog)] = [call |-> "Register", ok |-> TRUE]
                 /\ Len(submitted) = 1
          /\ (pc = "Return" \/ exitCode = 0) => ctx.err = "canceled")
    /\ [][pc = "Running" /\ pc' # "Running" =>
              /\ ctx.err = "canceled"
              /\ pc' = "Return"]_vars

\* C7 witness: main() has left the wait after the watcher's cancel()
C7_Witness ==
    /\ pc = "Return"
    /\ runs = 1
    /\ signals = 0
    /\ cancels = 1

\* a trigger of the shutdown has happened: a signal was delivered, or the
\* transport task has put its outcome on the channel for the watcher
Triggered ==
    \/ signals > 0
    \/ wpc \in {"received", "done"}
    \/ wpc = "waiting" /\ Ready(errCh)

\* C8: from the wait of line 260, either trigger leads to the context
\* being canceled, main() returning, both deferred cleanups being run (the
\* directory removed, the trace sink closed) and the process exiting.
C8_TriggerLeadsToCleanExit ==
    (pc = "Running" /\ Triggered) ~>
        (/\ pc = "Terminated"
         /\ exitCode = 0
         /\ ctx.err = "canceled"
         /\ ~dirExists
         /\ removed = 1
         /\ ~jaegerOpen
         /\ defers = <<>>)

\* C8 witness: a Serve error received by the watcher, without any signal,
\* ended in the clean exit
C8_Witness ==
    /\ pc = "Terminated"
    /\ exitCode = 0
    /\ signals = 0
    /\ wErr = "Serve"
    /\ ~dirExists
    /\ ~jaegerOpen

\* C9: Register is called at most once in the life of the process.
C9_RegisteredAtMostOnce ==
    /\ Len(submitted) <= 1
    /\ Cardinality({i \in 1..Len(callLog) : callLog[i].call = "Register"}) <= 1
    /\ Len(submitted) = 1 <=> Called("Register")

\* C9 witness: the endpoint was registered and the process went on to
\* shut down
C9_Witness ==
    /\ Len(submitted) = 1
    /\ pc = "Terminated"
    /\ exitCode = 0

\* C10: the record passed to Register carries the configured name, the
\* configured service name as only served name, the target string of the
\* address that was handed to ListenAndServe, and as expiration the clock
\* reading of the submission plus the configured lifetime.
C10_RegistrationPayload ==
    \A i \in 1..Len(submitted) :
        /\ Len(served) = 1
        /\ served[1].addr.Scheme = "unix"
        /\ served[1].addr.Path = tmpDir \o "/listen_on.io.sock"
        /\ submitted[i].Name = config.Name
        /\ submitted[i].NetworkServiceNames = <<config.NSName>>
        /\ submitted[i].Url = "unix://" \o served[1].addr.Path
        /\ submitted[i].ExpirationTime =
               [Seconds |-> submitClock + config.MaxTokenLifetime, Nanos |-> 0]
        /\ config \in Config

\* C10 witness: a record was submitted for the spec's configuration with
\* the clock past the start time
C10_Witness ==
    /\ Len(submitted) = 1
    /\ config.Name = "nse-1"
    /\ config.NSName = "svc-A"
    /\ config.ConnectTo.Scheme = "tcp"
    /\ submitClock > starttime

\* C11: the cancellation of the shared context is monotonic, and the
\* context is canceled only by the signal handling installed by main() or
\* by the watcher's cancel(): once canceled it stays canceled, and every
\* step that changes it is the delivery of the first signal or the
\* watcher's call of cancel().
C11_MonotonicAndOwned ==
    [][/\ ctx.err = "canceled" => ctx'.err = "canceled"
       /\ ctx' # ctx =>
              /\ ctx.err = "nil"
              /\ ctx'.err = "canceled"
              /\ \/ signals = 0 /\ signals' = 1 /\ cancels' = cancels
                 \/ wpc = "received" /\ wpc' = "done"
                      /\ cancels' = cancels + 1 /\ signals' = signals]_vars

\* C11 witness: the context, canceled by the first signal, is still
\* canceled after a second signal and the watcher's cancel()
C11_Witness ==
    /\ ctx.err = "canceled"
    /\ signals = 2
    /\ cancels = 1
    /\ pc = "Return"

\* C12: a transport failure observed by the watcher always ends in the
\* graceful shutdown (main() returns, both cleanups run, exit status 0)
\* and never in a fatal exit, also when the failure comes while phase 8 is
\* still in flight.
C12_WatchedFailureIsGraceful ==
    (wpc \in {"received", "done"} /\ wErr = "Serve" /\ pc = "Terminated") =>
        /\ exitCode = 0
        /\ fatalErr = "nil"
        /\ ~dirExists
        /\ ~jaegerOpen

\* the listener never came up: ListenAndServe reported a listen error
ListenFailed ==
    \E i \in 1..Len(callLog) :
        callLog[i] = [call |-> "ListenAndServe", ok |-> FALSE]

WatcherOrder == <<"none", "waiting", "received", "done">>

WRank(w) == CHOOSE i \in 1..Len(WatcherOrder) : WatcherOrder[i] = w

\* C14: the watcher is spawned at most once, and only by an exitOnErr
\* whose select found nothing pending; what the transport task puts on
\* the channel is received by the select or by the watcher, never by both.
C14_OneWatcherOneReceiver ==
    /\ [](/\ wpc # "none" => checked = "empty"
          /\ checked = "pending" => wpc = "none" /\ pc = "Terminated"
          /\ wpc \in {"received", "done"} => errCh.buf = <<>>)
    /\ [][/\ wpc' # wpc => WRank(wpc') = WRank(wpc) + 1
          /\ wpc = "none" /\ wpc' # "none" =>
                 /\ pc = "exitOnErr"
                 /\ ~Ready(errCh)
                 /\ checked' = "empty"
          /\ errCh.buf # <<>> /\ errCh'.buf = <<>> =>
                 \/ checked = "none" /\ checked' = "pending" /\ wpc' = wpc
                 \/ wpc = "waiting" /\ wpc' = "received"
                      /\ checked' = checked]_vars

\* C14 witness: the select found nothing, and the watcher alone received
\* the Serve error
C14_Witness ==
    /\ checked = "empty"
    /\ wpc = "received"
    /\ wErr = "Serve"
    /\ errCh.buf = <<>>

\* the transport task has yielded its terminal outcome after exitOnErr
\* installed the watcher
OutcomeForWatcher == checked = "empty" /\ tpc = "done"

\* the watcher has received the outcome and called cancel()
WatcherCanceled == wpc = "done" /\ cancels = 1 /\ ctx.err = "canceled"

\* C15 as stated: whatever outcome the transport task yields after the
\* watcher is installed, the watcher eventually receives it and cancels
\* the shared context.
C15_WatcherAlwaysCancels == OutcomeForWatcher ~> WatcherCanceled

\* C15, amended: the watcher receives the outcome (an error, or the zero
\* value of the closed channel) and cancels the shared context, unless the
\* process exits first.
C15_WatcherCancelsWhileAlive ==
    OutcomeForWatcher ~> (WatcherCanceled \/ exitCode # -1)

\* C15 witness: the watcher received the zero value of the silently closed
\* channel and called cancel() in the living process
C15_Witness ==
    /\ wpc = "done"
    /\ wErr = "nil"
    /\ cancels = 1
    /\ exitCode = -1

\* the background goroutines started by main() that are still running
AliveTasks ==
    {t \in {"transport", "watcher"} :
        \/ t = "transport" /\ tpc = "serving"
        \/ t = "watcher" /\ wpc \in {"waiting", "received"}}

\* C16 as stated: in every state in which main() waits at line 260,
\* exactly two background tasks are alive, the serve loop and the watcher.
C16_ExactlyTwoTasks ==
    pc = "Running" => AliveTasks = {"transport", "watcher"}

\* C16, amended: while main() waits at line 260 both tasks have been
\* started, at most these two are alive, and both are alive as long as the
\* transport task has not yielded its terminal outcome.
C16_TwoTasksUntilOutcome ==
    pc = "Running" =>
        /\ tpc \in {"serving", "done"}
        /\ wpc \in {"waiting", "received", "done"}
        /\ Cardinality(AliveTasks) <= 2
        /\ tpc = "serving" =>
               /\ wpc = "waiting"
               /\ AliveTasks = {"transport", "watcher"}
        /\ tpc = "done" => "transport" \notin AliveTasks

\* C16 witness: main() waits, the context is not canceled, and the serve
\* loop and the watcher are both alive
C16_Witness ==
    /\ pc = "Running"
    /\ ctx.err = "nil"
    /\ AliveTasks = {"transport", "watcher"}

\* something of phase 7 exists: the directory or its deferred removal, the
\* attached server, the transport task, the watcher
Phase7Started ==
    \/ tmpDir # ""
    \/ dirExists
    \/ \E i \in 1..Len(defers) : defers[i] = "os.RemoveAll"
    \/ listenOn # NoURL
    \/ attached > 0
    \/ served # <<>>
    \/ tpc # "none"
    \/ checked # "none"
    \/ wpc # "none"

\* C17: the socket directory is created only after every call of phases
\* 1..6 has succeeded; a failure in one of these phases terminates the
\* process with no directory created, no transport task started and no
\* watcher spawned.
C17_NoDirBeforePhase7 ==
    /\ Phase7Started =>
           /\ Len(callLog) >= 10
           /\ \A i \in 1..10 : callLog[i] = [call |-> CallOrder[i], ok |-> TRUE]
           /\ phaseLog \in {UpTo(7), UpTo(8)}
    /\ \A i \in 1..Len(callLog) :
           (~callLog[i].ok /\ PhaseOf(callLog[i].call) <= 6) =>
               /\ pc = "Terminated"
               /\ exitCode = 1
               /\ ~Phase7Started
               /\ removed = 0

\* C17 witness: phase 5 failed and the process terminated with nothing of
\* phase 7 in existence
C17_Witness ==
    /\ pc = "Terminated"
    /\ fatalErr = "GetX509SVID"
    /\ ~Phase7Started
    /\ phaseLog = UpTo(5)

\* C18: the endpoint is attached to the transport server before the
\* transport task is started on it, and it is attached exactly once: every
\* server handed to ListenAndServe had the endpoint attached already.
C18_AttachedBeforeServe ==
    /\ attached <= 1
    /\ Len(served) <= 1
    /\ \A i \in 1..Len(served) : served[i].attached = 1
    /\ tpc # "none" => attached = 1 /\ Len(served) = 1
    /\ attached = 1 <=> Called("ListenAndServe")

\* C18 witness: the task serves the server on which the endpoint was
\* attached once
C18_Witness ==
    /\ tpc = "serving"
    /\ pc = "DialContext"
    /\ attached = 1
    /\ served[1].attached = 1

\* C19: once the shared context is canceled while main() waits at line
\* 260, main() returns and the process exits, without any further step of
\* the transport task or of the watcher being needed.
C19_ExitNeedsNoBackgroundStep ==
    (pc = "Running" /\ ctx.err = "canceled") ~>
        (pc = "Terminated" /\ exitCode = 0 /\ defers = <<>>)

\* C19 witness: the process exited after a signal while the transport task
\* was still serving and the watcher still waiting
C19_Witness ==
    /\ pc = "Terminated"
    /\ exitCode = 0
    /\ tpc = "serving"
    /\ wpc = "waiting"
    /\ ~errCh.closed

====
